---- MODULE Spec2Model ----
(***************************************************************************)
(* Model of the constexpr command-line dispatcher of cliapp-rs:            *)
(* Executable::execute (src/src/constexpr/mod.rs) walking a static tree of *)
(* Application / SubCommand nodes and mutating FlagValue / ParameterValue  *)
(* stores.  Strings are sequences of one-character strings so that         *)
(* starts_with, find('=') and slicing are computed, not assumed.           *)
(***************************************************************************)
EXTENDS Naturals, Sequences, FiniteSets

VARIABLES tree, node, flag_value, param_value, consumed, depth,
          outcome, result, error, invoked, args, pass, builder

vars == <<tree, node, flag_value, param_value, consumed, depth,
          outcome, result, error, invoked, args, pass, builder>>

(* ---------------- bounds ---------------- *)

\* Longest stream of words handed to execute.
MaxTokens == 4

\* execute is called at most this many times on one application
MaxPasses == 2

(* ---------------- Option<T> ---------------- *)

None == <<>>
Some(x) == <<x>>
IsSome(o) == Len(o) = 1
Unwrap(o) == o[1]

(* ---------------- &str operations used by execute ---------------- *)

\* str::starts_with
StartsWith(s, prefix) ==
    /\ Len(s) >= Len(prefix)
    /\ SubSeq(s, 1, Len(prefix)) = prefix

\* &s[n..] (n bytes dropped from the front)
SliceFrom(s, n) == SubSeq(s, n + 1, Len(s))

\* &s[0..n]
SliceTo(s, n) == SubSeq(s, 1, n)

\* str::rfind('='): the position of the last '='
FindEquals_Last(s) ==
    IF \E i \in 1..Len(s) : s[i] = "="
    THEN Some((CHOOSE i \in 1..Len(s) :
                  /\ s[i] = "="
                  /\ \A j \in (i + 1)..Len(s) : s[j] # "=") - 1)
    ELSE None

\* str::find('='): Some(0-based position of the first '=') or None
FindEquals(s) ==
    IF \E i \in 1..Len(s) : s[i] = "="
    THEN Some((CHOOSE i \in 1..Len(s) :
                  /\ s[i] = "="
                  /\ \A j \in 1..(i - 1) : s[j] # "=") - 1)
    ELSE None

(* ---------------- names, values and tokens ---------------- *)

Dash == <<"-">>
DashDash == <<"-", "-">>
Equals == <<"=">>
Empty == <<>>

ShortNames == {<<"f">>, <<"g">>, <<"p">>, <<"q">>, <<"x">>, Empty}
LongNames == {<<"f", "l">>, <<"g", "l">>, <<"p", "a">>, <<"q", "a">>,
              <<"x", "x">>, Empty}
Values == {Empty, <<"v">>, <<"a", "=", "b">>}

\* The words an argument iterator can yield in this model.
Tokens ==
    {Empty, <<"s", "u">>, <<"x">>}
    \cup {Dash \o n : n \in ShortNames}
    \cup {Dash \o <<"p">> \o Equals \o <<"v">>}
    \cup {DashDash \o n : n \in LongNames}
    \cup {DashDash \o <<"p", "a">> \o Equals \o v : v \in Values}
    \cup {DashDash \o n \o Equals \o <<"v">> : n \in {<<"q", "a">>, <<"f", "l">>, Empty}}

\* What one more args.next() can return.
NextTokens == {None} \cup {Some(t) : t \in Tokens}

(* ---------------- stores ---------------- *)

FlagStores == {"F", "G"}
ParamStores == {"P", "Q"}

\* FlagValue::new
FlagValueNew == FALSE
\* ParameterValue::new
ParameterValueNew == None

\* mark that leaves the flag alone once another flag is set
Mark_First(fv, flag) ==
    IF \E s \in DOMAIN fv : s # flag.flag /\ fv[s] THEN fv ELSE [fv EXCEPT ![flag.flag] = TRUE]

\* mark that sets every flag of the application
Mark_All(fv, flag) == [s \in DOMAIN fv |-> TRUE]

\* FlagValue::mark / Flag::mark
Mark(fv, flag) == [fv EXCEPT ![flag.flag] = TRUE]

\* set_value that keeps the value a parameter already has
SetValue_KeepFirst(pv, param, value) ==
    [pv EXCEPT ![param.value] = IF IsSome(@) THEN @ ELSE Some(value)]

\* set_value that writes the value into every parameter of the application
SetValue_All(pv, param, value) == [s \in DOMAIN pv |-> Some(value)]

\* ParameterValue::set_value / Parameter::set_value
SetValue(pv, param, value) == [pv EXCEPT ![param.value] = Some(value)]

(* ---------------- the command trees ---------------- *)

Flag(short, long, store) == [short_name |-> short, long_name |-> long, flag |-> store]
Parameter(short, long, store) == [short_name |-> short, long_name |-> long, value |-> store]

\* callbacks return a value that identifies them
Call(cb) == <<"ret", cb>>

SubNode ==
    [long_name |-> <<"s", "u">>,
     flags |-> <<Flag(<<"g">>, <<"g", "l">>, "G")>>,
     params |-> <<Parameter(<<"q">>, <<"q", "a">>, "Q")>>,
     subcommands |-> <<>>,
     command |-> Some("sub_main")]

\* a subcommand of a subcommand, named as its parent is
LeafNode ==
    [long_name |-> <<"s", "u">>,
     flags |-> <<>>,
     params |-> <<>>,
     subcommands |-> <<>>,
     command |-> Some("leaf_main")]

\* the subcommand with a subcommand of its own
NestNode == [SubNode EXCEPT !.subcommands = <<"leaf">>]

\* the example application: a flag, a parameter, a subcommand, a default command
RootNode ==
    [long_name |-> Empty,
     flags |-> <<Flag(<<"f">>, <<"f", "l">>, "F")>>,
     params |-> <<Parameter(<<"p">>, <<"p", "a">>, "P")>>,
     subcommands |-> <<"sub">>,
     command |-> Some("app_main")]

\* an application without a default command: a subcommand is required
GroupNode ==
    [long_name |-> Empty,
     flags |-> <<Flag(<<"f">>, <<"f", "l">>, "F")>>,
     params |-> <<>>,
     subcommands |-> <<"sub">>,
     command |-> None]

\* the application of tests/flags.rs and tests/parameters.rs: two flags with
\* both names, a parameter with a long name only, one with a short name only
TestNode ==
    [long_name |-> Empty,
     flags |-> <<Flag(<<"f">>, <<"f", "l">>, "F"), Flag(<<"g">>, <<"g", "l">>, "G")>>,
     params |-> <<Parameter(Empty, <<"p", "a">>, "P"), Parameter(<<"q">>, Empty, "Q")>>,
     subcommands |-> <<>>,
     command |-> Some("default_command")]

\* an application whose parameter has the short name of its flag
ClashNode ==
    [long_name |-> Empty,
     flags |-> <<Flag(<<"f">>, <<"f", "l">>, "F")>>,
     params |-> <<Parameter(<<"f">>, <<"p", "a">>, "P"),
                  Parameter(<<"q">>, <<"q", "a">>, "Q")>>,
     subcommands |-> <<"sub">>,
     command |-> Some("app_main")]

Trees ==
    {[root |-> RootNode, sub |-> SubNode, leaf |-> LeafNode],
     [root |-> GroupNode, sub |-> NestNode, leaf |-> LeafNode],
     [root |-> TestNode, sub |-> SubNode, leaf |-> LeafNode]}

Nodes == {"root", "sub", "leaf"}

(* ---------------- the builders ---------------- *)

\* what build() comes to: the value built, or the message it panics with
Built(x) == [ok |-> TRUE, value |-> <<x>>, message |-> ""]
Aborted(message) == [ok |-> FALSE, value |-> <<>>, message |-> message]

\* match self.name { Some(name) => name, None => "" }
OrEmpty(name) == IF IsSome(name) THEN Unwrap(name) ELSE Empty

\* FlagBuilder::build that does not look at the names
FlagBuilderBuild_NoAssert(b) ==
    IF ~IsSome(b.flag)
    THEN Aborted("Flag must have a flag value.")
    ELSE Built(Flag(OrEmpty(b.short_name), OrEmpty(b.long_name), Unwrap(b.flag)))

\* FlagBuilder::build
FlagBuilderBuild(b) ==
    IF ~IsSome(b.flag)
    THEN Aborted("Flag must have a flag value.")
    ELSE IF OrEmpty(b.short_name) = Empty /\ OrEmpty(b.long_name) = Empty
    THEN Aborted("Flag must at least have a short name or long name.")
    ELSE Built(Flag(OrEmpty(b.short_name), OrEmpty(b.long_name), Unwrap(b.flag)))

\* ParameterBuilder::build
ParameterBuilderBuild(b) ==
    IF ~IsSome(b.value)
    THEN Aborted("Parameter must have a value.")
    ELSE IF OrEmpty(b.short_name) = Empty /\ OrEmpty(b.long_name) = Empty
    THEN Aborted("Parameter must at least have a short name or long name.")
    ELSE Built(Parameter(OrEmpty(b.short_name), OrEmpty(b.long_name), Unwrap(b.value)))

\* match self.flags { Some(flags) => flags, None => &[] }
OrNone(slice) == IF IsSome(slice) THEN Unwrap(slice) ELSE <<>>

\* SubCommandBuilder::build
SubCommandBuilderBuild(b) ==
    IF ~IsSome(b.long_name)
    THEN Aborted("Subcommand must have a long name.")
    ELSE IF ~(IsSome(b.command) \/ OrNone(b.subcommands) # <<>>)
    THEN Aborted("Subcommand must have either a default command or at least one subcommand.")
    ELSE Built([long_name |-> Unwrap(b.long_name),
                flags |-> OrNone(b.flags),
                params |-> OrNone(b.params),
                subcommands |-> OrNone(b.subcommands),
                command |-> b.command])

\* ApplicationBuilder::build
ApplicationBuilderBuild(b) ==
    IF ~(IsSome(b.command) \/ OrNone(b.subcommands) # <<>>)
    THEN Aborted("Application must have either a default command or at least one subcommand.")
    ELSE Built([long_name |-> Empty,
                flags |-> OrNone(b.flags),
                params |-> OrNone(b.params),
                subcommands |-> OrNone(b.subcommands),
                command |-> b.command])

\* what the builders are given: the names and the store of a flag of the
\* application and of a parameter of its subcommand, the subcommand's name
\* and command, the application's command and subcommands
Builders ==
    [flag : [short_name : {None, Some(Empty), Some(<<"f">>)},
             long_name : {None, Some(Empty), Some(<<"f", "l">>)},
             flag : {None, Some("F")}],
     param : [short_name : {None, Some(Empty), Some(<<"q">>)},
              long_name : {None, Some(Empty), Some(<<"q", "a">>)},
              value : {None, Some("Q")}],
     sub : [long_name : {None, Some(Empty), Some(<<"s", "u">>)},
            command : {None, Some("sub_main")}],
     app : [command : {None, Some("app_main")},
            subcommands : {None, Some(<<>>), Some(<<"sub">>)}]]

\* no builder is at work
NoBuilder ==
    [flag |-> [short_name |-> None, long_name |-> None, flag |-> None],
     param |-> [short_name |-> None, long_name |-> None, value |-> None],
     sub |-> [long_name |-> None, command |-> None],
     app |-> [command |-> None, subcommands |-> None]]

\* a node that has not been built
NoNode ==
    [long_name |-> Empty, flags |-> <<>>, params |-> <<>>,
     subcommands |-> <<>>, command |-> None]

(* ---------------- Executable::execute ---------------- *)

\* slice.iter().find(pred): the first element in declaration order, or None
\* (pred[i] tells whether the closure holds of seq[i])
FindFirst(seq, pred) ==
    IF \E i \in 1..Len(seq) : pred[i]
    THEN Some(seq[CHOOSE i \in 1..Len(seq) :
                     /\ pred[i]
                     /\ \A j \in 1..(i - 1) : ~pred[j]])
    ELSE None

\* the panic sites of execute, named by the error kind each stands for
UnexpectedParameter == "Unexpected parameter: "
UnknownArgument == "Unexpected flag: "
ExpectedValue == "Expected value for parameter: "
UnknownCommand == "Unexpected command: "
ExpectedSubcommand == ""

Running == outcome = "running"

\* a failure that puts the stores back as they were constructed
Panic_Rollback(kind, arg) ==
    /\ outcome' = "panicked"
    /\ error' = Some([kind |-> kind, arg |-> arg])
    /\ flag_value' = [s \in FlagStores |-> FlagValueNew]
    /\ param_value' = [s \in ParamStores |-> ParameterValueNew]
    /\ UNCHANGED <<node, depth, result, invoked>>

\* panic!(msg, arg): execute unwinds, nothing else is touched
Panic(kind, arg) ==
    /\ outcome' = "panicked"
    /\ error' = Some([kind |-> kind, arg |-> arg])
    /\ UNCHANGED <<node, flag_value, param_value, depth, result, invoked>>

\* the loop goes on to the next args.next()
Continue ==
    UNCHANGED <<node, depth, outcome, result, error, invoked>>

\* the iterator handed to execute: any words at all (free), or the units
\* of rest in some order, a unit being an option word with the value word
\* that follows it, if any
FreeArgs == [free |-> TRUE, plan |-> {}, rest |-> {}]

\* args.next() is None
Exhausted == args.free \/ args.rest = {}

\* args.next() yielded the words of unit (a stream holds at most MaxTokens)
Pull(unit) ==
    /\ consumed + Len(unit) <= MaxTokens
    /\ consumed' = consumed + Len(unit)
    /\ IF args.free
       THEN args' = args
       ELSE /\ unit \in args.rest
            /\ args' = [args EXCEPT !.rest = @ \ {unit}]

\* LongParameter that refuses a parameter that already has a value
LongParameter_Once(arg) ==
    /\ Running
    /\ StartsWith(arg, DashDash)
    /\ IsSome(FindEquals(SliceFrom(arg, 2)))
    /\ Pull(<<arg>>)
    /\ LET arg_slice == SliceFrom(arg, 2)
           equals_pos == Unwrap(FindEquals(arg_slice))
           param_name == SliceTo(arg_slice, equals_pos)
           param_value_ == SliceFrom(arg_slice, equals_pos + 1)
           params == tree[node].params
           found == FindFirst(params, [i \in 1..Len(params) |->
                                          params[i].long_name = param_name])
       IN  IF IsSome(found) /\ ~IsSome(param_value[Unwrap(found).value])
           THEN /\ param_value' = SetValue(param_value, Unwrap(found), param_value_)
                /\ UNCHANGED flag_value
                /\ Continue
           ELSE Panic(UnexpectedParameter, arg)
    /\ UNCHANGED <<tree, pass, builder>>

\* arg starts with "--" and holds '=': a parameter by long name
LongParameter(arg) ==
    /\ Running
    /\ StartsWith(arg, DashDash)
    /\ IsSome(FindEquals(SliceFrom(arg, 2)))
    /\ Pull(<<arg>>)
    /\ LET arg_slice == SliceFrom(arg, 2)
           equals_pos == Unwrap(FindEquals(arg_slice))
           param_name == SliceTo(arg_slice, equals_pos)
           param_value_ == SliceFrom(arg_slice, equals_pos + 1)
           params == tree[node].params
           found == FindFirst(params, [i \in 1..Len(params) |->
                                          params[i].long_name = param_name])
       IN  IF IsSome(found)
           THEN /\ param_value' = SetValue(param_value, Unwrap(found), param_value_)
                /\ UNCHANGED flag_value
                /\ Continue
           ELSE Panic(UnexpectedParameter, arg)
    /\ UNCHANGED <<tree, pass, builder>>

\* LongFlag that takes the long name of a parameter for a flag without value
LongFlag_OrParameter(arg) ==
    /\ Running
    /\ StartsWith(arg, DashDash)
    /\ ~IsSome(FindEquals(SliceFrom(arg, 2)))
    /\ Pull(<<arg>>)
    /\ LET arg_slice == SliceFrom(arg, 2)
           flags == tree[node].flags
           params == tree[node].params
           found == FindFirst(flags, [i \in 1..Len(flags) |->
                                         flags[i].long_name = arg_slice])
           param == FindFirst(params, [i \in 1..Len(params) |->
                                          params[i].long_name = arg_slice])
       IN  IF IsSome(found)
           THEN /\ flag_value' = Mark(flag_value, Unwrap(found))
                /\ UNCHANGED param_value
                /\ Continue
           ELSE IF IsSome(param)
           THEN /\ param_value' = SetValue(param_value, Unwrap(param), Empty)
                /\ UNCHANGED flag_value
                /\ Continue
           ELSE Panic(UnknownArgument, arg)
    /\ UNCHANGED <<tree, pass, builder>>

\* arg starts with "--" and holds no '=': a flag by long name
LongFlag(arg) ==
    /\ Running
    /\ StartsWith(arg, DashDash)
    /\ ~IsSome(FindEquals(SliceFrom(arg, 2)))
    /\ Pull(<<arg>>)
    /\ LET arg_slice == SliceFrom(arg, 2)
           flags == tree[node].flags
           found == FindFirst(flags, [i \in 1..Len(flags) |->
                                         flags[i].long_name = arg_slice])
       IN  IF IsSome(found)
           THEN /\ flag_value' = Mark(flag_value, Unwrap(found))
                /\ UNCHANGED param_value
                /\ Continue
           ELSE Panic(UnknownArgument, arg)
    /\ UNCHANGED <<tree, pass, builder>>

\* arg starts with one dash only
IsShort(arg) == ~StartsWith(arg, DashDash) /\ StartsWith(arg, Dash)

\* params.iter().find(|param| param.short_name == arg_slice)
ShortParamFound(arg) ==
    LET arg_slice == SliceFrom(arg, 1)
        params == tree[node].params
    IN  FindFirst(params, [i \in 1..Len(params) |-> params[i].short_name = arg_slice])

\* the lookup of a short flag that gives way to a parameter of that name
ShortFlagFound_AfterParam(arg) ==
    LET arg_slice == SliceFrom(arg, 1)
        flags == tree[node].flags
    IN  IF IsSome(ShortParamFound(arg))
        THEN None
        ELSE FindFirst(flags, [i \in 1..Len(flags) |-> flags[i].short_name = arg_slice])

\* the lookup of a short flag going on to the application's flags
ShortFlagFound_Inherited(arg) ==
    LET arg_slice == SliceFrom(arg, 1)
        flags == tree[node].flags \o tree["root"].flags
    IN  FindFirst(flags, [i \in 1..Len(flags) |-> flags[i].short_name = arg_slice])

\* flags.iter().find(|flag| flag.short_name == arg_slice)
ShortFlagFound(arg) ==
    LET arg_slice == SliceFrom(arg, 1)
        flags == tree[node].flags
    IN  FindFirst(flags, [i \in 1..Len(flags) |-> flags[i].short_name = arg_slice])

\* short name of a declared flag
ShortFlag(arg) ==
    /\ Running
    /\ IsShort(arg)
    /\ IsSome(ShortFlagFound(arg))
    /\ Pull(<<arg>>)
    /\ flag_value' = Mark(flag_value, Unwrap(ShortFlagFound(arg)))
    /\ UNCHANGED param_value
    /\ Continue
    /\ UNCHANGED <<tree, pass, builder>>

\* ShortParameter that binds the empty string when no word follows
ShortParameter_EmptyValue(arg, next_) ==
    /\ Running
    /\ IsShort(arg)
    /\ ~IsSome(ShortFlagFound(arg))
    /\ IsSome(ShortParamFound(arg))
    /\ IF IsSome(next_)
       THEN /\ Pull(<<arg, Unwrap(next_)>>)
            /\ param_value' = SetValue(param_value, Unwrap(ShortParamFound(arg)),
                                       Unwrap(next_))
            /\ UNCHANGED flag_value
            /\ Continue
       ELSE /\ Pull(<<arg>>)
            /\ param_value' = SetValue(param_value, Unwrap(ShortParamFound(arg)), Empty)
            /\ UNCHANGED flag_value
            /\ Continue
    /\ UNCHANGED <<tree, pass, builder>>

\* ShortParameter that looks at the word after the name and takes one with
\* a leading dash for the next option, not for the value
ShortParameter_Peek(arg, next_) ==
    /\ Running
    /\ IsShort(arg)
    /\ ~IsSome(ShortFlagFound(arg))
    /\ IsSome(ShortParamFound(arg))
    /\ IF IsSome(next_) /\ ~StartsWith(Unwrap(next_), Dash)
       THEN /\ Pull(<<arg, Unwrap(next_)>>)
            /\ param_value' = SetValue(param_value, Unwrap(ShortParamFound(arg)),
                                       Unwrap(next_))
            /\ UNCHANGED flag_value
            /\ Continue
       ELSE /\ Pull(<<arg>>)
            /\ Panic(ExpectedValue, arg)
    /\ UNCHANGED <<tree, pass, builder>>

\* short name of no flag but of a declared parameter: the value is the
\* next word of the iterator (next_ = args.next()), whatever it looks like
ShortParameter(arg, next_) ==
    /\ Running
    /\ IsShort(arg)
    /\ ~IsSome(ShortFlagFound(arg))
    /\ IsSome(ShortParamFound(arg))
    /\ IF IsSome(next_)
       THEN /\ Pull(<<arg, Unwrap(next_)>>)
            /\ param_value' = SetValue(param_value, Unwrap(ShortParamFound(arg)),
                                       Unwrap(next_))
            /\ UNCHANGED flag_value
            /\ Continue
       ELSE /\ Pull(<<arg>>)
            /\ Panic(ExpectedValue, arg)
    /\ UNCHANGED <<tree, pass, builder>>

\* short name of nothing declared at this node
ShortUnknown(arg) ==
    /\ Running
    /\ IsShort(arg)
    /\ ~IsSome(ShortFlagFound(arg))
    /\ ~IsSome(ShortParamFound(arg))
    /\ Pull(<<arg>>)
    /\ Panic(UnknownArgument, arg)
    /\ UNCHANGED <<tree, pass, builder>>

\* subcommands.iter().find(|command| command.long_name == arg)
SubcommandFound(arg) ==
    LET subcommands == tree[node].subcommands
    IN  FindFirst(subcommands, [i \in 1..Len(subcommands) |->
                                   tree[subcommands[i]].long_name = arg])

\* SubcommandToken taking a word that names no subcommand for a positional
\* argument of the node's own command, which it runs
SubcommandToken_RunsCommand(arg) ==
    /\ Running
    /\ ~StartsWith(arg, DashDash)
    /\ ~StartsWith(arg, Dash)
    /\ Pull(<<arg>>)
    /\ IF IsSome(SubcommandFound(arg))
       THEN /\ node' = Unwrap(SubcommandFound(arg))
            /\ depth' = depth + 1
            /\ UNCHANGED <<flag_value, param_value, outcome, result, error, invoked>>
       ELSE IF IsSome(tree[node].command)
       THEN /\ invoked' = Append(invoked, Unwrap(tree[node].command))
            /\ result' = Some(Call(Unwrap(tree[node].command)))
            /\ outcome' = "returned"
            /\ UNCHANGED <<node, flag_value, param_value, depth, error>>
       ELSE Panic(UnknownCommand, arg)
    /\ UNCHANGED <<tree, pass, builder>>

\* SubcommandToken that runs the command of the node it leaves before it
\* moves into the child
SubcommandToken_RunsBoth(arg) ==
    /\ Running
    /\ ~StartsWith(arg, DashDash)
    /\ ~StartsWith(arg, Dash)
    /\ Pull(<<arg>>)
    /\ IF IsSome(SubcommandFound(arg))
       THEN /\ node' = Unwrap(SubcommandFound(arg))
            /\ depth' = depth + 1
            /\ invoked' = IF IsSome(tree[node].command)
                          THEN Append(invoked, Unwrap(tree[node].command))
                          ELSE invoked
            /\ UNCHANGED <<flag_value, param_value, outcome, result, error>>
       ELSE Panic(UnknownCommand, arg)
    /\ UNCHANGED <<tree, pass, builder>>

\* SubcommandToken that leaves the word in the iterator for the child to
\* pull again
SubcommandToken_Revisit(arg) ==
    /\ Running
    /\ ~StartsWith(arg, DashDash)
    /\ ~StartsWith(arg, Dash)
    /\ IF IsSome(SubcommandFound(arg))
       THEN /\ node' = Unwrap(SubcommandFound(arg))
            /\ depth' = depth + 1
            /\ UNCHANGED <<flag_value, param_value, outcome, result, error, invoked>>
            /\ UNCHANGED <<consumed, args>>
       ELSE /\ Pull(<<arg>>)
            /\ Panic(UnknownCommand, arg)
    /\ UNCHANGED <<tree, pass, builder>>

\* no leading dash: the word selects a subcommand, which takes over the
\* rest of the iterator (return command.execute(args))
SubcommandToken(arg) ==
    /\ Running
    /\ ~StartsWith(arg, DashDash)
    /\ ~StartsWith(arg, Dash)
    /\ Pull(<<arg>>)
    /\ IF IsSome(SubcommandFound(arg))
       THEN /\ node' = Unwrap(SubcommandFound(arg))
            /\ depth' = depth + 1
            /\ UNCHANGED <<flag_value, param_value, outcome, result, error, invoked>>
       ELSE Panic(UnknownCommand, arg)
    /\ UNCHANGED <<tree, pass, builder>>

\* EndOfInput that falls back on the application's command when the node has none
EndOfInput_Fallback ==
    /\ Running
    /\ Exhausted
    /\ IF IsSome(tree[node].command)
       THEN /\ invoked' = Append(invoked, Unwrap(tree[node].command))
            /\ result' = Some(Call(Unwrap(tree[node].command)))
            /\ outcome' = "returned"
            /\ UNCHANGED <<node, flag_value, param_value, depth, error>>
       ELSE /\ invoked' = Append(invoked, "default_command")
            /\ result' = Some(Call("default_command"))
            /\ outcome' = "returned"
            /\ UNCHANGED <<node, flag_value, param_value, depth, error>>
    /\ UNCHANGED <<tree, consumed, args, pass, builder>>

\* EndOfInput running the application's command from wherever execute is
EndOfInput_RootCommand ==
    /\ Running
    /\ Exhausted
    /\ IF IsSome(tree["root"].command)
       THEN /\ invoked' = Append(invoked, Unwrap(tree["root"].command))
            /\ result' = Some(Call(Unwrap(tree["root"].command)))
            /\ outcome' = "returned"
            /\ UNCHANGED <<node, flag_value, param_value, depth, error>>
       ELSE Panic(ExpectedSubcommand, Empty)
    /\ UNCHANGED <<tree, consumed, args, pass, builder>>

\* args.next() is None: run the node's command, or panic!("")
EndOfInput ==
    /\ Running
    /\ Exhausted
    /\ IF IsSome(tree[node].command)
       THEN /\ invoked' = Append(invoked, Unwrap(tree[node].command))
            /\ result' = Some(Call(Unwrap(tree[node].command)))
            /\ outcome' = "returned"
            /\ UNCHANGED <<node, flag_value, param_value, depth, error>>
       ELSE Panic(ExpectedSubcommand, Empty)
    /\ UNCHANGED <<tree, consumed, args, pass, builder>>

\* one turn of the while loop on the word arg
Iteration(arg, next_) ==
    \/ LongParameter(arg)
    \/ LongFlag(arg)
    \/ ShortFlag(arg)
    \/ ShortParameter(arg, next_)
    \/ ShortUnknown(arg)
    \/ SubcommandToken(arg)

\* Application::execute(args) on freshly constructed stores
Init ==
    /\ tree \in Trees
    /\ node = "root"
    /\ flag_value = [s \in FlagStores |-> FlagValueNew]
    /\ param_value = [s \in ParamStores |-> ParameterValueNew]
    /\ consumed = 0
    /\ depth = 0
    /\ outcome = "running"
    /\ result = None
    /\ error = None
    /\ invoked = <<>>
    /\ args = FreeArgs
    /\ pass = 1
    /\ builder = NoBuilder

Next ==
    \/ \E arg \in Tokens : LongParameter(arg)
    \/ \E arg \in Tokens : LongFlag(arg)
    \/ \E arg \in Tokens : ShortFlag(arg)
    \/ \E arg \in Tokens, next_ \in NextTokens : ShortParameter(arg, next_)
    \/ \E arg \in Tokens : ShortUnknown(arg)
    \/ \E arg \in Tokens : SubcommandToken(arg)
    \/ EndOfInput

Spec == Init /\ [][Next]_vars

(* ---------------- construction, then execute ---------------- *)

\* the declarations and nodes are built, innermost first: the first build()
\* that panics aborts the construction, otherwise the application is ready
\* for execute
Build ==
    /\ outcome = "building"
    /\ LET flag == FlagBuilderBuild(builder.flag)
           param == ParameterBuilderBuild(builder.param)
           sub == SubCommandBuilderBuild(
                      [long_name |-> builder.sub.long_name,
                       flags |-> None,
                       params |-> Some(param.value),
                       subcommands |-> None,
                       command |-> builder.sub.command])
           app == ApplicationBuilderBuild(
                      [flags |-> Some(flag.value),
                       params |-> None,
                       subcommands |-> builder.app.subcommands,
                       command |-> builder.app.command])
           first == FindFirst(<<flag, param, sub, app>>,
                              [i \in 1..4 |-> ~<<flag, param, sub, app>>[i].ok])
       IN  IF IsSome(first)
           THEN /\ outcome' = "aborted"
                /\ error' = Some([kind |-> Unwrap(first).message, arg |-> Empty])
                /\ tree' = tree
           ELSE /\ outcome' = "running"
                /\ error' = None
                /\ tree' = [tree EXCEPT !["root"] = Unwrap(app.value),
                                        !["sub"] = Unwrap(sub.value)]
    /\ builder' = NoBuilder
    /\ UNCHANGED <<node, flag_value, param_value, consumed, depth, result,
                   invoked, args, pass>>

\* the builders have their inputs, nothing is built yet
InitBuild ==
    /\ builder \in Builders
    /\ tree = [n \in Nodes |-> NoNode]
    /\ node = "root"
    /\ flag_value = [s \in FlagStores |-> FlagValueNew]
    /\ param_value = [s \in ParamStores |-> ParameterValueNew]
    /\ consumed = 0
    /\ depth = 0
    /\ outcome = "building"
    /\ result = None
    /\ error = None
    /\ invoked = <<>>
    /\ args = FreeArgs
    /\ pass = 1

NextBuild == Build \/ Next

SpecBuild == InitBuild /\ [][NextBuild]_vars

(* ---------------- execute on a flag and a parameter of one short name ---------------- *)

InitClash ==
    /\ tree = [root |-> ClashNode, sub |-> SubNode, leaf |-> LeafNode]
    /\ node = "root"
    /\ flag_value = [s \in FlagStores |-> FlagValueNew]
    /\ param_value = [s \in ParamStores |-> ParameterValueNew]
    /\ consumed = 0
    /\ depth = 0
    /\ outcome = "running"
    /\ result = None
    /\ error = None
    /\ invoked = <<>>
    /\ args = FreeArgs
    /\ pass = 1
    /\ builder = NoBuilder

SpecClash == InitClash /\ [][Next]_vars

(* ---------------- execute called again on the same application ---------------- *)

\* a second execute that starts on stores as they were constructed
Replay_Fresh ==
    /\ outcome \in {"returned", "panicked"}
    /\ pass < MaxPasses
    /\ pass' = pass + 1
    /\ node' = "root"
    /\ depth' = 0
    /\ outcome' = "running"
    /\ result' = None
    /\ error' = None
    /\ invoked' = <<>>
    /\ flag_value' = [s \in FlagStores |-> FlagValueNew]
    /\ param_value' = [s \in ParamStores |-> ParameterValueNew]
    /\ UNCHANGED <<tree, consumed, args, builder>>

\* Application::execute is called once more, after a pass that returned or
\* one whose panic was caught: it starts at the root again with a new
\* iterator; the stores are the caller's and keep what they hold (consumed
\* goes on counting the words pulled over all passes)
Replay ==
    /\ outcome \in {"returned", "panicked"}
    /\ pass < MaxPasses
    /\ pass' = pass + 1
    /\ node' = "root"
    /\ depth' = 0
    /\ outcome' = "running"
    /\ result' = None
    /\ error' = None
    /\ invoked' = <<>>
    /\ UNCHANGED <<flag_value, param_value>>
    /\ UNCHANGED <<tree, consumed, args, builder>>

NextReplay == Next \/ Replay

SpecReplay == Init /\ [][NextReplay]_vars

(* ---------------- vocabulary of the properties ---------------- *)

Indices(seq) == 1..Len(seq)

\* the words that name a flag: -s and --l, for the names it has
FlagTokens(flag) ==
    {Dash \o n : n \in {flag.short_name} \ {Empty}}
    \cup {DashDash \o n : n \in {flag.long_name} \ {Empty}}

\* the one-word forms --l=v of a parameter, with the value each carries
LongParamTokens(param) ==
    {<<DashDash \o n \o Equals \o v, v>> : n \in {param.long_name} \ {Empty}, v \in Values}

\* the first word -s of the two-word form of a parameter
ShortParamTokens(param) == {Dash \o n : n \in {param.short_name} \ {Empty}}

\* the step is one execute takes on the word arg, whatever word follows it
Handles(arg) ==
    \/ Iteration(arg, None)
    \/ IsShort(arg) /\ \E v \in Tokens : ShortParameter(arg, Some(v))

StoresUnchanged == UNCHANGED <<flag_value, param_value>>

\* the command of the node execute is at
NodeCommand == Unwrap(tree[node].command)

(* ---------------- execute on the units of a plan, in any order ---------------- *)

\* the units that name a flag: one word each
FlagUnits(flag) == {<<t>> : t \in FlagTokens(flag)}

\* the units that bind a parameter, with the value each gives it: the word
\* --l=v, or the word -s and the word after it
ParamUnits(param) ==
    {<<<<tv[1]>>, tv[2]>> : tv \in LongParamTokens(param)}
    \cup {<<<<t, v>>, v>> : t \in ShortParamTokens(param), v \in Tokens}

\* words that name nothing the application of the tests declares
StrayUnits == {<<(<<"x">>)>>, <<(<<"-", "x">>)>>}

AtMostOne(units) == {{}} \cup {{u} : u \in units}

RECURSIVE Words(_)
\* the number of words of a set of units
Words(units) ==
    IF units = {}
    THEN 0
    ELSE LET u == CHOOSE u \in units : TRUE
         IN  Len(u) + Words(units \ {u})

\* the streams of the application of the tests, up to the order of their
\* units: at most one unit for each of its two flags and two parameters,
\* and stray words
Plans ==
    {plan \in {f \cup g \cup p \cup q \cup stray :
                  f \in AtMostOne(FlagUnits(TestNode.flags[1])),
                  g \in AtMostOne(FlagUnits(TestNode.flags[2])),
                  p \in AtMostOne({uv[1] : uv \in ParamUnits(TestNode.params[1])}),
                  q \in AtMostOne({uv[1] : uv \in ParamUnits(TestNode.params[2])}),
                  stray \in SUBSET StrayUnits} :
        Words(plan) <= MaxTokens}

\* execute on an iterator that yields the units of a plan in some order
InitOrder ==
    /\ tree = [root |-> TestNode, sub |-> SubNode, leaf |-> LeafNode]
    /\ \E plan \in Plans : args = [free |-> FALSE, plan |-> plan, rest |-> plan]
    /\ node = "root"
    /\ flag_value = [s \in FlagStores |-> FlagValueNew]
    /\ param_value = [s \in ParamStores |-> ParameterValueNew]
    /\ consumed = 0
    /\ depth = 0
    /\ outcome = "running"
    /\ result = None
    /\ error = None
    /\ invoked = <<>>
    /\ pass = 1
    /\ builder = NoBuilder

SpecOrder == InitOrder /\ [][Next]_vars

(* ---------------- C1 ---------------- *)

\* C1: on [root options..., subcommand name, child options...] every option
\* word binds the store of the declaration it names at the node execute is
\* at (a flag word marks the flag, --l=v and -s v set the parameter to v),
\* the subcommand word moves execute into the child without touching a store
\* or calling anything, no later step undoes a binding, and at the end of
\* the words the command of the node reached - the child's, not the root's -
\* is the only one called and its return value is the result.
C1_DispatchBindsThenRunsChild ==
    [][/\ \A i \in Indices(tree[node].flags) :
            \A t \in FlagTokens(tree[node].flags[i]) :
                Handles(t) =>
                    /\ flag_value'[tree[node].flags[i].flag] = TRUE
                    /\ outcome' = "running"
       /\ \A i \in Indices(tree[node].params) :
            /\ \A tv \in LongParamTokens(tree[node].params[i]) :
                Handles(tv[1]) =>
                    /\ param_value'[tree[node].params[i].value] = Some(tv[2])
                    /\ outcome' = "running"
            /\ \A t \in ShortParamTokens(tree[node].params[i]) :
                \A v \in Tokens :
                    Iteration(t, Some(v)) =>
                        /\ param_value'[tree[node].params[i].value] = Some(v)
                        /\ outcome' = "running"
       /\ \A i \in Indices(tree[node].subcommands) :
            Handles(tree[tree[node].subcommands[i]].long_name) =>
                /\ node' = tree[node].subcommands[i]
                /\ StoresUnchanged
                /\ invoked' = <<>>
                /\ outcome' = "running"
       /\ \A s \in FlagStores : flag_value[s] => flag_value'[s]
       /\ \A s \in ParamStores : IsSome(param_value[s]) => IsSome(param_value'[s])
       /\ (EndOfInput /\ IsSome(tree[node].command)) =>
                /\ outcome' = "returned"
                /\ invoked' = <<NodeCommand>>
                /\ result' = Some(Call(NodeCommand))
                /\ StoresUnchanged
       /\ outcome' = "returned" =>
                /\ node' = "sub" => invoked' = <<"sub_main">>
                /\ result' = Some(Call(invoked'[1]))
      ]_vars

\* -f --pa=v su -g was dispatched: F, P and G are bound and sub_main returned
C1_Witness ==
    /\ outcome = "returned"
    /\ node = "sub"
    /\ flag_value["F"] /\ flag_value["G"]
    /\ param_value["P"] = Some(<<"v">>)
    /\ invoked = <<"sub_main">>
    /\ result = Some(Call("sub_main"))

(* ---------------- C2 ---------------- *)

Failed(kind, arg) == outcome = "panicked" /\ error = Some([kind |-> kind, arg |-> arg])

StoresInitial ==
    /\ \A s \in FlagStores : flag_value[s] = FALSE
    /\ \A s \in ParamStores : param_value[s] = None

\* C2: when the words run out at a node (at the root on an empty stream, or
\* at a node reached by descent) the step execute takes pulls no word: it runs that node's
\* command and returns its value if the node has one, and otherwise fails
\* with ExpectedSubcommand; the step changes no store, so an empty stream
\* ends with every flag false and every parameter unset.
C2_EndOfInputRule ==
    [][consumed' = consumed =>
          /\ IF IsSome(tree[node].command)
             THEN /\ outcome' = "returned"
                  /\ invoked' = <<NodeCommand>>
                  /\ result' = Some(Call(NodeCommand))
                  /\ error' = None
             ELSE /\ Failed(ExpectedSubcommand, Empty)'
                  /\ invoked' = <<>>
                  /\ result' = None
          /\ StoresUnchanged
          /\ node' = node
          /\ consumed = 0 => (node = "root" /\ StoresInitial')
      ]_vars

\* the empty stream on the application without a default command
C2_Witness ==
    /\ consumed = 0
    /\ node = "root"
    /\ tree["root"] = GroupNode
    /\ Failed(ExpectedSubcommand, Empty)
    /\ StoresInitial
    /\ invoked = <<>>

(* ---------------- C3 ---------------- *)

\* the word is -s or --l of a flag declared at the node execute is at, or
\* -s or --l=... of a parameter declared there
Recognized(t) ==
    \/ \E i \in Indices(tree[node].flags) :
          \/ t = Dash \o tree[node].flags[i].short_name
          \/ t = DashDash \o tree[node].flags[i].long_name
    \/ \E i \in Indices(tree[node].params) :
          \/ t = Dash \o tree[node].params[i].short_name
          \/ StartsWith(t, DashDash \o tree[node].params[i].long_name \o Equals)

DashTokens == {t \in Tokens : Len(t) >= 1 /\ t[1] = "-"}

\* --...=... : two dashes and an '=' somewhere after them
IsLongWithEquals(t) ==
    /\ Len(t) >= 3
    /\ t[1] = "-" /\ t[2] = "-"
    /\ \E i \in 3..Len(t) : t[i] = "="

\* -s and --l of a declared flag set that flag's store and nothing else
FlagWordFrame ==
    \A i \in Indices(tree[node].flags) :
        \A t \in FlagTokens(tree[node].flags[i]) :
            Handles(t) =>
                /\ flag_value' = [flag_value EXCEPT ![tree[node].flags[i].flag] = TRUE]
                /\ UNCHANGED param_value
                /\ outcome' = "running"

\* a failed dispatch takes no further step, so a flag word after the
\* failing word is never applied
FailureIsFinal == outcome = "panicked" => UNCHANGED vars

\* C3 as stated: -s and --l each set exactly that flag's store, and every
\* unrecognized dash word fails with UnknownArgument leaving the stores
\* (the flag included) as they were.
C3_Original_UnknownArgumentOnly ==
    [][/\ FlagWordFrame
       /\ FailureIsFinal
       /\ \A t \in DashTokens :
            (~Recognized(t) /\ Handles(t)) =>
                /\ Failed(UnknownArgument, t)'
                /\ StoresUnchanged
      ]_vars

\* C3 amended: -s and --l each set exactly that flag's store and leave every
\* other store unchanged; an unrecognized dash word fails - with
\* UnexpectedParameter when it is a long-form word holding '=', with
\* UnknownArgument otherwise - and leaves the stores as they were.
C3_FlagFrameAndUnrecognized ==
    [][/\ FlagWordFrame
       /\ FailureIsFinal
       /\ \A t \in DashTokens :
            (~Recognized(t) /\ Handles(t)) =>
                /\ Failed(IF IsLongWithEquals(t) THEN UnexpectedParameter
                                                 ELSE UnknownArgument, t)'
                /\ StoresUnchanged
      ]_vars

\* tests/flags.rs flag_parsing_2: -f alone marked f and left g, P and Q alone
C3_Witness ==
    /\ tree["root"] = TestNode
    /\ outcome = "returned"
    /\ consumed = 1
    /\ flag_value = [F |-> TRUE, G |-> FALSE]
    /\ param_value = [P |-> None, Q |-> None]

(* ---------------- C4 ---------------- *)

\* the step binds a parameter: it is execute's step on some --l=v or -s v
BindsSomeParameter ==
    \E arg \in DashTokens :
        \/ LongParameter(arg)
        \/ \E v \in Tokens : ShortParameter(arg, Some(v))

\* C4: every parameter store reads unset before the first word, and only a
\* step that binds a parameter changes one; the step on -p x (two words) or
\* on --param=x (one word) sets the store of the parameter named to exactly
\* x and leaves every other store as it was, and the step that ends a
\* successful dispatch changes no store.
C4_ParameterReadsBoundValue ==
    [][/\ consumed = 0 => \A s \in ParamStores : param_value[s] = None
       /\ param_value' # param_value => BindsSomeParameter
       /\ \A i \in Indices(tree[node].params) :
            /\ \A t \in ShortParamTokens(tree[node].params[i]), x \in Tokens :
                  Iteration(t, Some(x)) =>
                      /\ param_value' =
                            [param_value EXCEPT ![tree[node].params[i].value] = Some(x)]
                      /\ UNCHANGED flag_value
                      /\ outcome' = "running"
            /\ \A tx \in LongParamTokens(tree[node].params[i]) :
                  Handles(tx[1]) =>
                      /\ param_value' =
                            [param_value EXCEPT ![tree[node].params[i].value] = Some(tx[2])]
                      /\ UNCHANGED flag_value
                      /\ outcome' = "running"
       /\ outcome' = "returned" => StoresUnchanged
      ]_vars

\* -p x was dispatched with success: P reads x, Q is still unset
C4_Witness ==
    /\ outcome = "returned"
    /\ consumed = 2
    /\ param_value = [P |-> Some(<<"x">>), Q |-> None]
    /\ flag_value = [F |-> FALSE, G |-> FALSE]

(* ---------------- C5 ---------------- *)

\* C5: every parse failure reaches the caller as an error value returned by
\* execute, and execute never panics on a malformed stream.
C5_FailuresAreReturnedNotPanics ==
    /\ outcome # "panicked"
    /\ IsSome(error) => outcome = "returned"

(* ---------------- C6 ---------------- *)

\* C6: the step on which dispatch fails pulls at most the failing word and
\* leaves every store, the node and the calls made as the words before it
\* left them (nothing is rolled back), and after it execute takes no step:
\* the words after the failing one are never pulled or applied.
C6_NoRollbackNoRecovery ==
    [][/\ outcome' = "panicked" =>
            /\ StoresUnchanged
            /\ UNCHANGED <<node, invoked, result>>
            /\ consumed' \in {consumed, consumed + 1}
       /\ outcome = "panicked" => UNCHANGED vars
      ]_vars

\* dispatch failed on its third word: the flag and the parameter bound by
\* the first two are kept, the fourth word was never pulled
C6_Witness ==
    /\ outcome = "panicked"
    /\ consumed = 3
    /\ consumed < MaxTokens
    /\ flag_value["F"] = TRUE
    /\ param_value["P"] = Some(<<"v">>)

(* ---------------- C7 ---------------- *)

Children(n) == {tree[n].subcommands[i] : i \in Indices(tree[n].subcommands)}

\* the words that name a declaration of node n
OptionWords(n) ==
    UNION {FlagTokens(tree[n].flags[i]) : i \in Indices(tree[n].flags)}
    \cup UNION {ShortParamTokens(tree[n].params[i]) : i \in Indices(tree[n].params)}
    \cup UNION {{tv[1] : tv \in LongParamTokens(tree[n].params[i])} :
                   i \in Indices(tree[n].params)}

\* C7: execute only ever moves from a node into one of its children, never
\* back; and an option word that names a declaration of another node (the
\* parent's after the subcommand word, the child's before it) and none of
\* the node execute is at is rejected there without touching a store.
C7_SubcommandCommitsTheStream ==
    [][/\ node' # node => (node' \in Children(node) /\ depth' = depth + 1)
       /\ depth' >= depth
       /\ \A m \in Nodes \ {node} :
            \A t \in OptionWords(m) :
                (~Recognized(t) /\ Handles(t)) =>
                    /\ outcome' = "panicked"
                    /\ error' \in {Some([kind |-> k, arg |-> t]) :
                                      k \in {UnknownArgument, UnexpectedParameter}}
                    /\ StoresUnchanged
                    /\ UNCHANGED <<node, invoked>>
      ]_vars

\* su -f: the root's flag after the subcommand word is rejected in the child
C7_Witness ==
    /\ node = "sub"
    /\ depth = 1
    /\ Failed(UnknownArgument, <<"-", "f">>)
    /\ flag_value["F"] = FALSE

(* ---------------- C8 ---------------- *)

\* C8: when the word -s of a declared parameter is the last one of the
\* stream (nothing follows it), the step on it fails with ExpectedValue
\* carrying that word and changes no store: the parameter keeps the value
\* it had.
C8_ShortParameterWithoutValue ==
    [][\A i \in Indices(tree[node].params) :
          \A t \in ShortParamTokens(tree[node].params[i]) :
              Iteration(t, None) =>
                  /\ Failed(ExpectedValue, t)'
                  /\ StoresUnchanged
                  /\ consumed' = consumed + 1
                  /\ UNCHANGED <<node, invoked, result>>
      ]_vars

\* --pa=v -f -p: the last word has no value, P still reads v and F is kept
C8_Witness ==
    /\ Failed(ExpectedValue, <<"-", "p">>)
    /\ consumed = 3
    /\ param_value = [P |-> Some(<<"v">>), Q |-> None]
    /\ flag_value["F"] = TRUE

(* ---------------- C9 ---------------- *)

\* the parameters of the node execute is at whose long name is n
ParamsNamed(n) == {i \in Indices(tree[node].params) : tree[node].params[i].long_name = n}

\* C9: the word --name=value, name holding no '=', is split at the first
\* '=': if name is the long name of a parameter declared at the node, the
\* parameter is set to everything after that '=' (a=b for --pa=a=b, the
\* empty string for --pa=) and nothing else changes; if it is not, the
\* step fails with UnexpectedParameter carrying the whole word.
C9_SplitAtFirstEquals ==
    [][\A n \in LongNames, v \in Values :
          LET t == DashDash \o n \o Equals \o v
          IN  Handles(t) =>
                  IF ParamsNamed(n) # {}
                  THEN /\ \E i \in ParamsNamed(n) :
                             param_value' =
                                [param_value EXCEPT ![tree[node].params[i].value] = Some(v)]
                       /\ UNCHANGED flag_value
                       /\ outcome' = "running"
                  ELSE /\ Failed(UnexpectedParameter, t)'
                       /\ StoresUnchanged
      ]_vars

\* --pa=a=b alone bound the value a=b
C9_Witness ==
    /\ consumed = 1
    /\ outcome = "running"
    /\ param_value["P"] = Some(<<"a", "=", "b">>)

(* ---------------- C10 ---------------- *)

FlagLongNames == {tree[node].flags[i].long_name : i \in Indices(tree[node].flags)}
ParamLongNames == {tree[node].params[i].long_name : i \in Indices(tree[node].params)}

\* C10: a long-form word is classified by '=' alone.  With '=' only the
\* parameters are searched: --flag=x, flag the long name of a declared flag
\* and of no parameter, fails with UnexpectedParameter carrying the word.
\* Without '=' only the flags are searched: --param, param the long name of
\* a declared parameter and of no flag, fails with UnknownArgument carrying
\* the word.  Neither changes a store, a step on a word with '=' after the
\* dashes never changes a flag, and one on a word without it never changes
\* a parameter.
C10_LongFormClassifiedByEquals ==
    [][/\ \A n \in FlagLongNames \ ParamLongNames, v \in Values :
            LET t == DashDash \o n \o Equals \o v
            IN  Handles(t) => (Failed(UnexpectedParameter, t)' /\ StoresUnchanged)
       /\ \A n \in ParamLongNames \ FlagLongNames :
            LET t == DashDash \o n
            IN  Handles(t) => (Failed(UnknownArgument, t)' /\ StoresUnchanged)
       /\ \A t \in DashTokens :
            (Len(t) >= 2 /\ t[2] = "-" /\ Handles(t)) =>
                /\ IsLongWithEquals(t) =>
                      /\ UNCHANGED flag_value
                      /\ outcome' = "panicked" =>
                            Failed(UnexpectedParameter, t)'
                /\ ~IsLongWithEquals(t) =>
                      /\ UNCHANGED param_value
                      /\ outcome' = "panicked" =>
                            Failed(UnknownArgument, t)'
      ]_vars

\* -f --fl=v: the declared flag written with a value is an unexpected parameter
C10_Witness ==
    /\ Failed(UnexpectedParameter, <<"-", "-", "f", "l", "=", "v">>)
    /\ consumed = 2
    /\ flag_value["F"] = TRUE
    /\ param_value = [P |-> None, Q |-> None]

(* ---------------- C11 ---------------- *)

\* the words without a leading dash
BareTokens == {t \in Tokens : t = Empty \/ t[1] # "-"}

\* the long names of the children of node n
ChildNames(n) == {tree[c].long_name : c \in Children(n)}

\* C11: a word without a leading dash that is the long name of no child of
\* the node execute is at fails with UnknownCommand carrying that word; the
\* step calls nothing - not the node's own command either, so no command
\* has been called when the pass has failed this way - returns nothing,
\* stays at the node and changes no store.
C11_UnknownBareWord ==
    [][\A t \in BareTokens \ ChildNames(node) :
          Handles(t) =>
              /\ Failed(UnknownCommand, t)'
              /\ invoked' = <<>>
              /\ result' = None
              /\ node' = node
              /\ StoresUnchanged
      ]_vars

\* -f x on the application that has a command of its own: F stays marked,
\* app_main was not called
C11_Witness ==
    /\ Failed(UnknownCommand, <<"x">>)
    /\ tree["root"] = RootNode
    /\ node = "root"
    /\ flag_value["F"]
    /\ consumed = 2
    /\ invoked = <<>>
    /\ result = None

(* ---------------- C12 ---------------- *)

\* C12: in one pass at most one command is called, and at most once: while
\* words are being pulled none has been called; the one call is made by the
\* step that finds the words exhausted, which pulls none, calls the command
\* of the node execute is at and ends the pass as returned; a pass that has
\* failed has called nothing, a pass that has returned has called exactly
\* one, and no step follows either.
C12_OneCallbackAtTheEnd ==
    [][/\ Running
       /\ invoked = <<>>
       /\ Len(invoked') <= 1
       /\ outcome' = "returned" <=> Len(invoked') = 1
       /\ outcome' \in {"running", "panicked"} => invoked' = <<>>
       /\ invoked' # invoked =>
              /\ Exhausted
              /\ consumed' = consumed
              /\ IsSome(tree[node].command)
              /\ invoked' = <<NodeCommand>>
              /\ node' = node
      ]_vars

\* --fl su -q x: four words pulled, then sub_main called once
C12_Witness ==
    /\ outcome = "returned"
    /\ consumed = MaxTokens
    /\ depth = 1
    /\ Len(invoked) = 1
    /\ param_value["Q"] = Some(<<"x">>)

(* ---------------- C18 ---------------- *)

\* C18: a parameter that already holds a value can be bound again in the
\* same stream, by its --l=v word or by its -s word and the word after it:
\* the step does not fail and the store then holds the value of this later
\* bind, whatever it held; only a step on a word that names a declaration
\* changes the store, so at the end of the words the store holds the value
\* of the last bind and the node's command runs.
C18_LastBindWins ==
    [][\A i \in Indices(tree[node].params) :
          LET store == tree[node].params[i].value
          IN  /\ IsSome(param_value[store]) =>
                    /\ \A tv \in LongParamTokens(tree[node].params[i]) :
                          Handles(tv[1]) =>
                              /\ param_value'[store] = Some(tv[2])
                              /\ outcome' = "running"
                              /\ error' = None
                    /\ \A t \in ShortParamTokens(tree[node].params[i]) :
                          \A v \in Tokens :
                              Iteration(t, Some(v)) =>
                                  /\ param_value'[store] = Some(v)
                                  /\ outcome' = "running"
                                  /\ error' = None
              /\ param_value'[store] # param_value[store] =>
                    \E t \in Tokens : Recognized(t) /\ Handles(t)
              /\ (EndOfInput /\ IsSome(tree[node].command)) =>
                    /\ outcome' = "returned"
                    /\ param_value'[store] = param_value[store]
      ]_vars

\* -p x --pa=v: the only streams of three words that end at the root with F
\* unmarked and P holding v bind P twice, Tokens having no bare word v
C18_Witness ==
    /\ outcome = "returned"
    /\ tree["root"] = RootNode
    /\ node = "root"
    /\ consumed = 3
    /\ ~flag_value["F"]
    /\ param_value["P"] = Some(<<"v">>)

(* ---------------- C14 ---------------- *)

\* the parameter stores the step has written a different value to
ParamStoresChanged == {s \in ParamStores : param_value'[s] # param_value[s]}

\* C14 as claimed: in one pass a parameter declaration is bound at most
\* once by an accepted stream - no step binds a parameter whose store this
\* pass has already set and goes on at a node whose command accepts the
\* stream if it ends there.
C14_Original_BoundAtMostOnce ==
    [][\A i \in Indices(tree[node].params) :
          IsSome(param_value[tree[node].params[i].value]) =>
              /\ \A tv \in LongParamTokens(tree[node].params[i]) :
                    Handles(tv[1]) =>
                        ~(outcome' = "running" /\ IsSome(tree[node].command))
              /\ \A t \in ShortParamTokens(tree[node].params[i]) :
                    \A v \in Tokens :
                        Iteration(t, Some(v)) =>
                            ~(outcome' = "running" /\ IsSome(tree[node].command))
      ]_vars

\* C14: in one pass each unit - a --l=v word, or a -s word with the word
\* after it - binds one parameter store, once: a step writes at most one
\* parameter store, a unit naming a parameter of the node writes that
\* parameter's store and no other, and nothing keeps a later unit from
\* binding the same parameter again: the step goes on running whether or
\* not the store was set.
C14_OneBindPerUnit ==
    [][/\ Cardinality(ParamStoresChanged) <= 1
       /\ consumed' - consumed \in {0, 1, 2}
       /\ \A i \in Indices(tree[node].params) :
            LET store == tree[node].params[i].value
            IN  /\ \A tv \in LongParamTokens(tree[node].params[i]) :
                      Handles(tv[1]) =>
                          /\ ParamStoresChanged \subseteq {store}
                          /\ IsSome(param_value'[store])
                          /\ consumed' = consumed + 1
                          /\ outcome' = "running"
                /\ \A t \in ShortParamTokens(tree[node].params[i]) :
                      \A v \in Tokens :
                          Iteration(t, Some(v)) =>
                              /\ ParamStoresChanged \subseteq {store}
                              /\ IsSome(param_value'[store])
                              /\ consumed' = consumed + 2
                              /\ outcome' = "running"
      ]_vars

\* --pa=v --pa=a=b was accepted: of the streams of two words that return at
\* the root with F unmarked, only those that bind P twice leave a=b in P,
\* Tokens having no bare word a=b
C14_Witness ==
    /\ outcome = "returned"
    /\ tree["root"] = RootNode
    /\ node = "root"
    /\ consumed = 2
    /\ ~flag_value["F"]
    /\ param_value["P"] = Some(<<"a", "=", "b">>)
    /\ invoked = <<"app_main">>

(* ---------------- C19 ---------------- *)

RECURSIVE Height(_)
\* the number of levels below node n
Height(n) ==
    IF Children(n) = {}
    THEN 0
    ELSE 1 + (CHOOSE h \in {Height(c) : c \in Children(n)} :
                 \A k \in {Height(c) : c \in Children(n)} : k <= h)

\* what is left of the pass at most: the words not pulled yet, and the
\* step that ends it
Measure == (MaxTokens - consumed) + (IF Running THEN 1 ELSE 0)

\* C19: a pass ends: every step either pulls one or two words it has not
\* pulled before, so the count of pulled words only grows and stays within
\* the length of the stream, or ends the pass, and nothing follows the end;
\* a descent is a step that pulls exactly one word without a leading dash
\* and moves into a child of the node, so the descents number at most the
\* bare words pulled and at most the levels of the tree.
C19_PassTerminates ==
    [][/\ Running
       /\ Measure' < Measure
       /\ Measure' >= 0
       /\ consumed' >= consumed
       /\ consumed' = consumed => outcome' # "running"
       /\ depth' \in {depth, depth + 1}
       /\ depth' = depth + 1 <=> node' # node
       /\ node' # node =>
              /\ node' \in Children(node)
              /\ consumed' = consumed + 1
              /\ \E t \in BareTokens : Handles(t)
       /\ depth' <= consumed'
       /\ depth' + Height(node') <= Height("root")
      ]_vars

\* su su on the tree of two levels: two descents, two words, leaf_main ran
C19_Witness ==
    /\ outcome = "returned"
    /\ depth = 2
    /\ node = "leaf"
    /\ consumed = 2
    /\ Height("root") = 2
    /\ invoked = <<"leaf_main">>

(* ---------------- C15 ---------------- *)

\* the builders have built the application execute runs on
Constructed == outcome \notin {"building", "aborted"}

\* C15: every subcommand that has been built has a non-empty long name - a
\* subcommand given the empty long name is rejected at construction - so
\* no word, the empty one least of all, selects a child by an empty name.
C15_SubCommandLongNameNonEmpty ==
    Constructed =>
        /\ tree["sub"].long_name # Empty
        /\ \A c \in Children(node) : tree[c].long_name # Empty

(* ---------------- C16 ---------------- *)

\* the builder was given a name, and not the empty one
NameGiven(name) == IsSome(name) /\ Unwrap(name) # Empty

\* the nodes and declarations the builders have built
BuiltNodes == {"root", "sub"}
BuiltFlags(n) == {tree[n].flags[i] : i \in Indices(tree[n].flags)}
BuiltParams(n) == {tree[n].params[i] : i \in Indices(tree[n].params)}

\* C16: construction aborts when the application has neither a command
\* nor a subcommand, when the subcommand has neither, when the flag has
\* neither a short nor a long name that is not empty, and when the
\* parameter has neither; an aborted construction builds nothing. Hence on
\* every state execute is in, each node built has a command or a
\* subcommand and each declaration a short or a long name that is not empty.
C16_ConstructionRejects ==
    [][/\ Build =>
            /\ (~IsSome(builder.app.command) /\ OrNone(builder.app.subcommands) = <<>>)
                   => outcome' = "aborted"
            /\ ~IsSome(builder.sub.command) => outcome' = "aborted"
            /\ (~NameGiven(builder.flag.short_name) /\ ~NameGiven(builder.flag.long_name))
                   => outcome' = "aborted"
            /\ (~NameGiven(builder.param.short_name) /\ ~NameGiven(builder.param.long_name))
                   => outcome' = "aborted"
            /\ outcome' = "aborted" => (tree' = tree /\ IsSome(error'))
       /\ Constructed' =>
            \A n \in BuiltNodes :
                /\ IsSome(tree'[n].command) \/ tree'[n].subcommands # <<>>
                /\ \A f \in {tree'[n].flags[i] : i \in Indices(tree'[n].flags)} :
                       f.short_name # Empty \/ f.long_name # Empty
                /\ \A q \in {tree'[n].params[i] : i \in Indices(tree'[n].params)} :
                       q.short_name # Empty \/ q.long_name # Empty
      ]_vars

\* an application with a named flag but neither a command nor a subcommand
\* was rejected by ApplicationBuilder::build
C16_Witness ==
    /\ outcome = "aborted"
    /\ error = Some([kind |-> "Application must have either a default command or at least one subcommand.",
                     arg |-> Empty])
    /\ tree = [n \in Nodes |-> NoNode]

(* ---------------- C17 ---------------- *)

\* the words of one dash
ShortTokens == {t \in DashTokens : Len(t) < 2 \/ t[2] # "-"}

\* C17: on a word of one dash the flags of the node are looked up before
\* its parameters: when what follows the dash is the short name of a flag
\* - be it the short name of a parameter as well - the step marks that
\* flag, pulls this one word only and leaves every parameter store alone;
\* when it is the short name of no flag but of a parameter, the step binds
\* that parameter to the word after it, or fails with ExpectedValue when
\* there is none; when it is neither, the step fails with UnknownArgument
\* carrying the word and changes no store.
C17_FlagBeforeParameter ==
    [][\A t \in ShortTokens :
          LET name == Tail(t)
              flags == {i \in Indices(tree[node].flags) :
                           tree[node].flags[i].short_name = name}
              params == {i \in Indices(tree[node].params) :
                            tree[node].params[i].short_name = name}
          IN  IF flags # {}
              THEN Handles(t) =>
                       /\ \A i \in flags :
                              flag_value' = [flag_value EXCEPT
                                                ![tree[node].flags[i].flag] = TRUE]
                       /\ UNCHANGED param_value
                       /\ consumed' = consumed + 1
                       /\ outcome' = "running"
              ELSE IF params # {}
              THEN /\ \A v \in Tokens :
                          Iteration(t, Some(v)) =>
                              /\ \A i \in params :
                                     param_value' = [param_value EXCEPT
                                                        ![tree[node].params[i].value] = Some(v)]
                              /\ UNCHANGED flag_value
                              /\ consumed' = consumed + 2
                              /\ outcome' = "running"
                   /\ Iteration(t, None) =>
                          /\ Failed(ExpectedValue, t)'
                          /\ StoresUnchanged
              ELSE Handles(t) =>
                       /\ Failed(UnknownArgument, t)'
                       /\ StoresUnchanged
      ]_vars

\* -f x where f names the flag F and the parameter P: F is marked, P is
\* unset, and x was not taken for a value but for a subcommand
C17_Witness ==
    /\ tree["root"] = ClashNode
    /\ node = "root"
    /\ flag_value["F"]
    /\ param_value["P"] = None
    /\ consumed = 2
    /\ Failed(UnknownCommand, <<"x">>)

(* ---------------- C13 ---------------- *)

\* C13: a flag store is false when the first pass starts and from then on
\* only ever moves from false to true: over every step of every pass -
\* a bind, a descent, a failure, the call of a command - and over the start
\* of a second pass on the same application a true flag stays true; a step
\* on a word of a flag that is already true changes no store; the start of
\* a pass resets neither a flag nor a parameter.
C13_FlagsOnlyRise ==
    [][/\ (pass = 1 /\ consumed = 0) => \A s \in FlagStores : ~flag_value[s]
       /\ \A s \in FlagStores : flag_value[s] => flag_value'[s]
       /\ \A i \in Indices(tree[node].flags) :
            \A t \in FlagTokens(tree[node].flags[i]) :
                (flag_value[tree[node].flags[i].flag] /\ Handles(t)) =>
                    /\ StoresUnchanged
                    /\ outcome' = "running"
       /\ outcome' = "panicked" => flag_value' = flag_value
       /\ pass' # pass =>
            /\ StoresUnchanged
            /\ node' = "root"
            /\ outcome' = "running"
      ]_vars

\* su -g, then a second pass -f -f that returns at the root: G is still
\* marked from the first pass and F was marked twice
C13_Witness ==
    /\ pass = 2
    /\ tree["root"] = RootNode
    /\ node = "root"
    /\ outcome = "returned"
    /\ consumed = 4
    /\ flag_value["G"]
    /\ flag_value["F"]
    /\ param_value["P"] = None

(* ---------------- C20 ---------------- *)

\* the units of the plan the iterator has yielded so far
Yielded == args.plan \ args.rest

\* the values the units give the parameter
ValuesGiven(units, param) == {uv[2] : uv \in {uv \in ParamUnits(param) : uv[1] \in units}}

\* C20: at one node the order of option units does not matter: when the
\* stream is made of units that name pairwise distinct flags and parameters
\* of the node, then in whatever order the iterator yields them the pass
\* does not fail, after any of them each flag is true exactly if a unit
\* naming it was yielded and each parameter holds the value of the unit
\* that names it if that was yielded and is unset otherwise, and when all
\* are yielded the node's command runs - so every permutation of the units
\* ends with the same result and the same stores.
C20_OrderInsensitive ==
    (~args.free /\ args.plan \cap StrayUnits = {}) =>
        /\ outcome \in {"running", "returned"}
        /\ \A i \in Indices(tree[node].flags) :
              flag_value[tree[node].flags[i].flag]
                  <=> (FlagUnits(tree[node].flags[i]) \cap Yielded # {})
        /\ \A i \in Indices(tree[node].params) :
              LET given == ValuesGiven(Yielded, tree[node].params[i])
              IN  /\ given = {} => param_value[tree[node].params[i].value] = None
                  /\ \A v \in given : param_value[tree[node].params[i].value] = Some(v)
        /\ outcome = "returned" =>
              /\ args.rest = {}
              /\ invoked = <<NodeCommand>>
              /\ result = Some(Call(NodeCommand))
        /\ consumed = Words(Yielded)

\* the units -g, --pa=a=b and -q -f were yielded in some order and
\* default_command ran: G and both parameters are bound, F is not
C20_Witness ==
    /\ ~args.free
    /\ args.plan = {<<(<<"-", "g">>)>>,
                    <<(<<"-", "-", "p", "a", "=", "a", "=", "b">>)>>,
                    <<(<<"-", "q">>), <<"-", "f">>>>}
    /\ args.rest = {}
    /\ outcome = "returned"
    /\ flag_value["G"] /\ ~flag_value["F"]
    /\ param_value["P"] = Some(<<"a", "=", "b">>)
    /\ param_value["Q"] = Some(<<"-", "f">>)

(* ---------------- C22 ---------------- *)

\* the words that would mean something at node n on their own: the words
\* of its flags and parameters and the long names of its children
MeaningfulWords(n) == OptionWords(n) \cup ChildNames(n)

\* C22: the word after the -s word of a parameter is its value, whatever
\* it looks like: when that word is a word of a flag or of a parameter of
\* the node, or the long name of one of its children, the step still binds
\* the parameter to exactly that word and pulls both words; it marks no
\* flag, writes no other parameter, stays at the node, calls nothing and
\* goes on running.
C22_ValueTakenVerbatim ==
    [][\A i \in Indices(tree[node].params) :
          \A t \in ShortParamTokens(tree[node].params[i]) :
              \A v \in MeaningfulWords(node) :
                  Iteration(t, Some(v)) =>
                      /\ param_value' = [param_value EXCEPT
                                            ![tree[node].params[i].value] = Some(v)]
                      /\ UNCHANGED flag_value
                      /\ node' = node
                      /\ depth' = depth
                      /\ consumed' = consumed + 2
                      /\ invoked' = <<>>
                      /\ outcome' = "running"
      ]_vars

\* -p -f -p su on the example application: P holds su (and held -f before),
\* F is false, execute never left the root and app_main ran
C22_Witness ==
    /\ tree["root"] = RootNode
    /\ node = "root"
    /\ depth = 0
    /\ consumed = 4
    /\ outcome = "returned"
    /\ param_value["P"] = Some(<<"s", "u">>)
    /\ ~flag_value["F"]
    /\ invoked = <<"app_main">>

(* ---------------- C21 ---------------- *)

\* the words that are a dash form with an empty name: -, -- and --=v
EmptyNameWords == {Dash, DashDash} \cup {DashDash \o Equals \o v : v \in Values}

\* the stores of the flags and of the parameters of the node that satisfy has
FlagStoresWhere(has) ==
    {tree[node].flags[i].flag : i \in {i \in Indices(tree[node].flags) : has[i]}}
ParamStoresWhere(has) ==
    {tree[node].params[i].value : i \in {i \in Indices(tree[node].params) : has[i]}}

\* C21: a declaration is matched through a non-empty name only: at every
\* node the builders have built, a step on a word of one dash changes the
\* store of no flag and no parameter whose short name is empty, a step on a
\* word of two dashes changes the store of none whose long name is empty,
\* and a step on -, -- or --=v fails and changes no store at all.
C21_MatchedByNonEmptyNameOnly ==
    [][Constructed =>
          /\ \A t \in ShortTokens :
                Handles(t) =>
                    /\ \A s \in FlagStoresWhere([i \in Indices(tree[node].flags) |->
                                                   tree[node].flags[i].short_name = Empty]) :
                           flag_value'[s] = flag_value[s]
                    /\ \A s \in ParamStoresWhere([i \in Indices(tree[node].params) |->
                                                    tree[node].params[i].short_name = Empty]) :
                           param_value'[s] = param_value[s]
          /\ \A t \in DashTokens \ ShortTokens :
                Handles(t) =>
                    /\ \A s \in FlagStoresWhere([i \in Indices(tree[node].flags) |->
                                                   tree[node].flags[i].long_name = Empty]) :
                           flag_value'[s] = flag_value[s]
                    /\ \A s \in ParamStoresWhere([i \in Indices(tree[node].params) |->
                                                    tree[node].params[i].long_name = Empty]) :
                           param_value'[s] = param_value[s]
          /\ \A t \in EmptyNameWords :
                Handles(t) =>
                    /\ outcome' = "panicked"
                    /\ IsSome(error')
                    /\ StoresUnchanged
      ]_vars

====
